---- MODULE Spec2Model ----
(***************************************************************************)
(* Model of the Yukti AI marketing dashboard (Streamlit, three pages).     *)
(*                                                                         *)
(*  - pages/3_Live_Alerts.py : the live issue queue.  One script run is    *)
(*    one atomic step (Streamlit re-executes the page top to bottom on     *)
(*    every interaction and on st.rerun()).                                *)
(*  - pages/2_Forecaster.py  : allocate_budget_based_on_goal.              *)
(*  - pages/1_Diagnostics.py, pages/2_Forecaster.py : the guarded loads.   *)
(*                                                                         *)
(* The Google Sheet, the n8n webhook and the st.cache_data TTL are the     *)
(* environment: rows are appended or removed externally, cached reads      *)
(* expire at any time, and every remote call may raise.                    *)
(***************************************************************************)
EXTENDS Integers, Sequences, FiniteSets, TLC

\* ---------------------------------------------------------------- bounds
MaxIssues == 3          \* timestamps ever created in the issue sheet
MaxCampaignRows == 2    \* records ever appended to the campaign sheet
MaxSegments == 3        \* ad types of the selected city/product/SKU
ScoreRange == 2         \* forecast scores range over -ScoreRange..ScoreRange
MaxDay == 14            \* calendar days offered by the date input: 0..MaxDay
Backlog == 6            \* rows of the issue sheet when the automatic loop starts

\* ------------------------------------------------------------- constants
TailWindow == 5         \* .tail(5)
MinHistory == 5         \* if len(ad_type_df) < 5: continue
MinBudget == 10000      \* st.number_input(min_value=10000, ...)
BudgetStep == 10000     \* st.number_input(..., step=10000)

NoTs == 0
Timestamps == 1..MaxIssues

VARIABLES
    sheet,                 \* ITC_Issue_Queue rows, in sheet order
    next_ts,               \* next Timestamp the external producer will use
    cache,                 \* st.cache_data entry of load_live_status
    resolved_timestamps,   \* st.session_state.resolved_timestamps
    auto_resolve,          \* value of the "Enable AI Auto-Resolve" toggle
    live_df,               \* Timestamps of live_df in the last script run
    view,                  \* what the last script run of Live Alerts rendered
    pending_run,           \* a script run is queued (first load or st.rerun())
    trigger,               \* what started the last script run
    last,                  \* the last resolve_issue call and its outcome
    dispatched             \* completed webhook POSTs for issue last.ts in the
                           \* latest run of consecutive calls for that issue:
                           \* "never", "once" or "repeatedly"

live_vars == <<sheet, next_ts, cache, resolved_timestamps, auto_resolve,
               live_df, view, pending_run, trigger, last, dispatched>>

VARIABLES
    campaign_rows,         \* number of records in ITC_Campaign_Data_Live
    diag_cache,            \* st.cache_data entry of Diagnostics' load_data_from_gsheet
    fc_cache,              \* st.cache_data entry of Forecaster's load_data_from_gsheet
    diag_view,             \* what the last run of the Diagnostics page rendered
    fc_view                \* what the last run of the Forecaster page rendered

page_vars == <<campaign_rows, diag_cache, fc_cache, diag_view, fc_view>>

VARIABLES
    alloc_input,           \* per ad type: history length and forecast score
    alloc_budget,          \* total_budget of the number input
    alloc_result           \* allocation_df of the last "Generate AI Budget Plan"

alloc_vars == <<alloc_input, alloc_budget, alloc_result>>

VARIABLES
    date_range,            \* value of the "Select Date Range" input (day numbers)
    prev_period            \* prev_start_date / prev_end_date of the last run

period_vars == <<date_range, prev_period>>

VARIABLES
    page_df,               \* column means of the filtered table (tenths), or empty
    insight                \* (symptom, cause, recommendation) of the last run

insight_vars == <<page_df, insight>>

vars == <<live_vars, page_vars, alloc_vars, period_vars, insight_vars>>

\* ------------------------------------------------------------ data frames
\* pd.DataFrame() has no columns at all; a filtered frame keeps its columns.
\* `error` is the exception shown by st.error in the except branch ("none"
\* when the load went through); st.cache_data stores it with the value.
EmptyDataFrame(e) == [has_cols |-> FALSE, rows |-> <<>>, error |-> e]

Range(s) == {s[i] : i \in 1..Len(s)}

\* df[df['Status'] == 'Pending'], keeping the Timestamp column only
PendingRows(sh) ==
    LET IsPending(r) == r.Status = "Pending"
        p == SelectSeq(sh, IsPending)
    IN [i \in 1..Len(p) |-> p[i].Timestamp]

\* DataFrame.tail(n)
Tail_n(s, n) == IF Len(s) <= n THEN s ELSE SubSeq(s, Len(s) - n + 1, Len(s))

\* load_live_status body: a failure of the remote calls (credentials, open,
\* get_all_records), and a sheet without records (df['Status'] raises
\* KeyError), end in the except branch.
load_live_status(sh, remote_ok) ==
    IF ~remote_ok THEN EmptyDataFrame("remote")
    ELSE IF Len(sh) = 0 THEN EmptyDataFrame("KeyError")
    ELSE [has_cols |-> TRUE, rows |-> PendingRows(sh), error |-> "none"]

\* @st.cache_data(ttl=10): the stored return value is reused until it expires
cached_load_live_status(c, sh, remote_ok) ==
    IF c.valid THEN c.df ELSE load_live_status(sh, remote_ok)

\* variant: the session's resolved Timestamps are not filtered out
list_pending_unfiltered(all_pending, resolved) ==
    Tail_n(all_pending.rows, TailWindow)

\* all_pending[~all_pending['Timestamp'].isin(resolved)].tail(5)
list_pending(all_pending, resolved) ==
    LET Keep(t) == t \notin resolved
    IN Tail_n(SelectSeq(all_pending.rows, Keep), TailWindow)

\* ---------------------------------------------------------- resolve_issue
Faults == {"none", "post", "sheet", "update"}

\* sheet.find(str(Timestamp)): row index, 0 for None
find(sh, ts) ==
    IF \E i \in 1..Len(sh) : sh[i].Timestamp = ts
    THEN CHOOSE i \in 1..Len(sh) :
            /\ sh[i].Timestamp = ts
            /\ \A j \in 1..(i - 1) : sh[j].Timestamp # ts
    ELSE 0

\* sheet.update_cell(row, status_col, value)
update_cell(sh, row, value) == [sh EXCEPT ![row].Status = value]

NoCall == [ts |-> NoTs, auto |-> FALSE, posted |-> FALSE, fault |-> "none",
           located |-> FALSE, wrote |-> FALSE, ret |-> FALSE]

\* variant: the failure of requests.post is swallowed and the sheet update goes on
resolve_issue_swallow_post(sh, ts, is_auto_resolve, fault) ==
    LET cell == find(sh, ts)
        call == [ts |-> ts, auto |-> is_auto_resolve, posted |-> is_auto_resolve,
                 fault |-> IF is_auto_resolve /\ fault = "post" THEN "post" ELSE "none",
                 located |-> cell # 0, wrote |-> FALSE, ret |-> FALSE]
    IN IF fault = "sheet"
       THEN [sheet |-> sh, call |-> [call EXCEPT !.fault = "sheet"]]
       ELSE IF cell = 0
       THEN [sheet |-> sh, call |-> [call EXCEPT !.ret = TRUE]]
       ELSE IF fault = "update"
       THEN [sheet |-> sh, call |-> [call EXCEPT !.fault = "update"]]
       ELSE [sheet |-> update_cell(sh, cell, "Resolved"),
             call  |-> [call EXCEPT !.wrote = TRUE, !.ret = TRUE]]

\* variant: the webhook is called without testing is_auto_resolve
resolve_issue_always_post(sh, ts, is_auto_resolve, fault) ==
    LET cell == find(sh, ts)
        call == [ts |-> ts, auto |-> is_auto_resolve, posted |-> TRUE,
                 fault |-> "none", located |-> cell # 0, wrote |-> FALSE,
                 ret |-> FALSE]
    IN IF fault = "post"
       THEN [sheet |-> sh, call |-> [call EXCEPT !.fault = "post"]]
       ELSE IF fault = "sheet"
       THEN [sheet |-> sh, call |-> [call EXCEPT !.fault = "sheet"]]
       ELSE IF cell = 0
       THEN [sheet |-> sh, call |-> [call EXCEPT !.ret = TRUE]]
       ELSE IF fault = "update"
       THEN [sheet |-> sh, call |-> [call EXCEPT !.fault = "update"]]
       ELSE [sheet |-> update_cell(sh, cell, "Resolved"),
             call  |-> [call EXCEPT !.wrote = TRUE, !.ret = TRUE]]

\* variant: the Status cell is flipped instead of set
resolve_issue_flip(sh, ts, is_auto_resolve, fault) ==
    LET cell == find(sh, ts)
        call == [ts |-> ts, auto |-> is_auto_resolve, posted |-> is_auto_resolve,
                 fault |-> "none", located |-> cell # 0, wrote |-> FALSE,
                 ret |-> FALSE]
    IN IF is_auto_resolve /\ fault = "post"
       THEN [sheet |-> sh, call |-> [call EXCEPT !.fault = "post"]]
       ELSE IF fault = "sheet"
       THEN [sheet |-> sh, call |-> [call EXCEPT !.fault = "sheet"]]
       ELSE IF cell = 0
       THEN [sheet |-> sh, call |-> [call EXCEPT !.ret = TRUE]]
       ELSE IF fault = "update"
       THEN [sheet |-> sh, call |-> [call EXCEPT !.fault = "update"]]
       ELSE [sheet |-> update_cell(sh, cell, IF sh[cell].Status = "Resolved"
                                             THEN "Pending" ELSE "Resolved"),
             call  |-> [call EXCEPT !.wrote = TRUE, !.ret = TRUE]]

\* variant: the sheet is updated before the webhook is called
resolve_issue_write_first(sh, ts, is_auto_resolve, fault) ==
    LET cell == find(sh, ts)
        call == [ts |-> ts, auto |-> is_auto_resolve, posted |-> FALSE,
                 fault |-> "none", located |-> cell # 0, wrote |-> FALSE,
                 ret |-> FALSE]
        written == [call EXCEPT !.wrote = cell # 0]
        after == IF cell = 0 THEN sh ELSE update_cell(sh, cell, "Resolved")
    IN IF fault = "sheet"
       THEN [sheet |-> sh, call |-> [call EXCEPT !.fault = "sheet"]]
       ELSE IF cell # 0 /\ fault = "update"
       THEN [sheet |-> sh, call |-> [call EXCEPT !.fault = "update"]]
       ELSE IF is_auto_resolve /\ fault = "post"
       THEN [sheet |-> after,
             call |-> [written EXCEPT !.posted = TRUE, !.fault = "post"]]
       ELSE [sheet |-> after,
             call |-> [written EXCEPT !.posted = is_auto_resolve, !.ret = TRUE]]

\* resolve_issue(sheet_name, issue_row, is_auto_resolve): the whole body is
\* one try block; `fault` names the remote call that raises, if any.
resolve_issue(sh, ts, is_auto_resolve, fault) ==
    LET cell == find(sh, ts)
        call == [ts |-> ts, auto |-> is_auto_resolve, posted |-> is_auto_resolve,
                 fault |-> "none", located |-> cell # 0, wrote |-> FALSE,
                 ret |-> FALSE]
    IN IF is_auto_resolve /\ fault = "post"
       THEN [sheet |-> sh, call |-> [call EXCEPT !.fault = "post"]]
       ELSE IF fault = "sheet"
       THEN [sheet |-> sh, call |-> [call EXCEPT !.fault = "sheet"]]
       ELSE IF cell = 0
       THEN [sheet |-> sh, call |-> [call EXCEPT !.ret = TRUE]]
       ELSE IF fault = "update"
       THEN [sheet |-> sh, call |-> [call EXCEPT !.fault = "update"]]
       ELSE [sheet |-> update_cell(sh, cell, "Resolved"),
             call  |-> [call EXCEPT !.wrote = TRUE, !.ret = TRUE]]

\* the POST of line 71 returned: the webhook has one more notification for
\* the issue of this call
record_dispatch(n, previous, call) ==
    LET so_far == IF previous.ts = call.ts THEN n ELSE "never"
    IN IF call.posted /\ call.fault # "post"
       THEN IF so_far = "never" THEN "once" ELSE "repeatedly"
       ELSE so_far

\* variant: the page re-runs whatever resolve_issue returned
rerun_queued_always(ret) == TRUE

\* st.rerun() (lines 125, 148) is reached only when resolve_issue returned True
rerun_queued(ret) == ret

\* ------------------------------------------------------- one script run
\* Lines 93-150 of the page, run with toggle value `auto`; `clicked` is the
\* Timestamp whose "Mark as Resolved" button fired (NoTs for none).  The
\* remote read succeeds or not as RemoteOutcomes allows, and resolve_issue
\* meets one of the faults of FaultSet.
RunLiveAlertsWith(trig, auto, clicked, RemoteOutcomes, FaultSet) ==
    \E remote_ok \in IF cache.valid THEN {TRUE} ELSE RemoteOutcomes :
        LET all_pending == cached_load_live_status(cache, sheet, remote_ok)
            live == list_pending(all_pending, resolved_timestamps)
        IN /\ cache' = [valid |-> TRUE, df |-> all_pending]
           /\ trigger' = trig
           /\ auto_resolve' = auto
           /\ UNCHANGED <<next_ts, page_vars, alloc_vars, period_vars, insight_vars>>
           /\ IF ~all_pending.has_cols
              THEN \* all_pending['Timestamp'] raises KeyError
                   /\ view' = "crash"
                   /\ live_df' = <<>>
                   /\ pending_run' = FALSE
                   /\ UNCHANGED <<sheet, resolved_timestamps, last, dispatched>>
              ELSE /\ live_df' = live
                   /\ IF live = <<>>
                      THEN /\ view' = "all_clear"
                           /\ pending_run' = FALSE
                           /\ UNCHANGED <<sheet, resolved_timestamps, last, dispatched>>
                      ELSE IF auto
                      THEN \E fault \in FaultSet :
                           LET top_issue == live[1]
                               r == resolve_issue(sheet, top_issue, TRUE, fault)
                           IN /\ sheet' = r.sheet
                              /\ last' = r.call
                              /\ dispatched' = record_dispatch(dispatched, last, r.call)
                              /\ pending_run' = rerun_queued(r.call.ret)
                              /\ IF r.call.ret
                                 THEN /\ resolved_timestamps' =
                                           resolved_timestamps \cup {top_issue}
                                      /\ view' = "auto_resolved"
                                 ELSE /\ view' = "auto_failed"
                                      /\ UNCHANGED resolved_timestamps
                      ELSE /\ resolved_timestamps' = {}
                           /\ IF clicked \in Range(live)
                              THEN \E fault \in FaultSet \ {"post"} :
                                   LET r == resolve_issue(sheet, clicked, FALSE, fault)
                                   IN /\ sheet' = r.sheet
                                      /\ last' = r.call
                                      /\ dispatched' = record_dispatch(dispatched, last, r.call)
                                      /\ pending_run' = rerun_queued(r.call.ret)
                                      /\ view' = IF r.call.ret THEN "manual_resolved"
                                                               ELSE "manual"
                              ELSE /\ view' = "manual"
                                   /\ pending_run' = FALSE
                                   /\ UNCHANGED <<sheet, last, dispatched>>

\* a script run in the full environment
RunLiveAlerts(trig, auto, clicked) ==
    RunLiveAlertsWith(trig, auto, clicked, BOOLEAN, Faults)

\* first page load, or the run queued by st.rerun()
RunPending ==
    /\ pending_run
    /\ RunLiveAlerts(IF view \in {"auto_resolved", "manual_resolved"}
                     THEN [kind |-> "rerun", ts |-> last.ts]
                     ELSE [kind |-> "load", ts |-> NoTs],
                     auto_resolve, NoTs)

\* the operator flips the toggle (rendered at line 98, so not after a crash)
Toggle ==
    /\ ~pending_run
    /\ view \notin {"none", "crash"}
    /\ RunLiveAlerts([kind |-> "toggle", ts |-> NoTs], ~auto_resolve, NoTs)

\* the operator presses "Mark as Resolved" on a displayed row
MarkAsResolved(ts) ==
    /\ ~pending_run
    /\ view = "manual"
    /\ ts \in Range(live_df)
    /\ RunLiveAlerts([kind |-> "click", ts |-> ts], auto_resolve, ts)

\* the operator re-runs the page with unchanged widgets
Refresh ==
    /\ ~pending_run
    /\ view # "none"
    /\ RunLiveAlerts([kind |-> "refresh", ts |-> NoTs], auto_resolve, NoTs)

\* ------------------------------------------------------------ environment
\* the external producer appends a Pending issue
NewIssue ==
    /\ next_ts <= MaxIssues
    /\ sheet' = Append(sheet, [Timestamp |-> next_ts, Status |-> "Pending"])
    /\ next_ts' = next_ts + 1
    /\ UNCHANGED <<cache, resolved_timestamps, auto_resolve, live_df, view,
                   pending_run, trigger, last, dispatched, page_vars, alloc_vars,
                   period_vars, insight_vars>>

\* somebody removes a row from the sheet
DeleteRow ==
    \E i \in 1..Len(sheet) :
        /\ sheet' = [j \in 1..(Len(sheet) - 1) |->
                        IF j < i THEN sheet[j] ELSE sheet[j + 1]]
        /\ UNCHANGED <<next_ts, cache, resolved_timestamps, auto_resolve,
                       live_df, view, pending_run, trigger, last, dispatched,
                       page_vars, alloc_vars, period_vars, insight_vars>>

\* ttl=10 elapses
CacheExpire ==
    /\ cache.valid
    /\ cache' = [valid |-> FALSE, df |-> EmptyDataFrame("none")]
    /\ UNCHANGED <<sheet, next_ts, resolved_timestamps, auto_resolve, live_df,
                   view, pending_run, trigger, last, dispatched, page_vars, alloc_vars,
                   period_vars, insight_vars>>

LiveInit ==
    /\ sheet = <<>>
    /\ next_ts = 1
    /\ cache = [valid |-> FALSE, df |-> EmptyDataFrame("none")]
    /\ resolved_timestamps = {}
    /\ auto_resolve = FALSE
    /\ live_df = <<>>
    /\ view = "none"
    /\ pending_run = TRUE
    /\ trigger = [kind |-> "none", ts |-> NoTs]
    /\ last = NoCall
    /\ dispatched = "never"

\* ------------------------------------- Diagnostics and Forecaster pages
\* load_data_from_gsheet of 1_Diagnostics.py: a remote failure is caught and
\* gives pd.DataFrame(); a sheet without records gives an empty frame too
\* (the 'Date' conversion is guarded by `if 'Date' in df.columns`).
diag_load_data_from_gsheet(rows, remote_ok) ==
    IF remote_ok /\ rows > 0 THEN "data" ELSE "empty"

\* load_data_from_gsheet of 2_Forecaster.py: df['Date'] on a frame without
\* records raises KeyError inside the try, which also gives pd.DataFrame().
fc_load_data_from_gsheet(rows, remote_ok) ==
    IF remote_ok /\ rows > 0 THEN "data" ELSE "empty"

\* `if not df.empty: ... else: st.error(...)`
render_guarded(df) == IF df = "data" THEN "content" ELSE "message"

VisitDiagnostics ==
    \E remote_ok \in BOOLEAN :
        LET df == IF diag_cache # "none" THEN diag_cache
                  ELSE diag_load_data_from_gsheet(campaign_rows, remote_ok)
        IN /\ diag_cache' = df
           /\ diag_view' = render_guarded(df)
           /\ UNCHANGED <<campaign_rows, fc_cache, fc_view, live_vars, alloc_vars, period_vars, insight_vars>>

VisitForecaster ==
    \E remote_ok \in BOOLEAN :
        LET df == IF fc_cache # "none" THEN fc_cache
                  ELSE fc_load_data_from_gsheet(campaign_rows, remote_ok)
        IN /\ fc_cache' = df
           /\ fc_view' = render_guarded(df)
           /\ UNCHANGED <<campaign_rows, diag_cache, diag_view, live_vars, alloc_vars, period_vars, insight_vars>>

\* the operator opens the Live Alerts page (toggle at its default, off)
VisitLiveAlerts ==
    RunLiveAlerts([kind |-> "load", ts |-> NoTs], FALSE, NoTs)

\* ttl=600 elapses
DiagCacheExpire ==
    /\ diag_cache # "none"
    /\ diag_cache' = "none"
    /\ UNCHANGED <<campaign_rows, fc_cache, diag_view, fc_view, live_vars, alloc_vars, period_vars, insight_vars>>

FcCacheExpire ==
    /\ fc_cache # "none"
    /\ fc_cache' = "none"
    /\ UNCHANGED <<campaign_rows, diag_cache, diag_view, fc_view, live_vars, alloc_vars, period_vars, insight_vars>>

\* the campaign sheet receives a record
AppendCampaignRow ==
    /\ campaign_rows < MaxCampaignRows
    /\ campaign_rows' = campaign_rows + 1
    /\ UNCHANGED <<diag_cache, fc_cache, diag_view, fc_view, live_vars, alloc_vars, period_vars, insight_vars>>

PagesInit ==
    /\ campaign_rows = 0
    /\ diag_cache = "none"
    /\ fc_cache = "none"
    /\ diag_view = "none"
    /\ fc_view = "none"

\* ------------------------------------------ allocate_budget_based_on_goal
\* Budgets are exact fractions num/den with den > 0 in the code's branches.
Frac(n, d) == [num |-> n, den |-> d]
FracEq(a, b) == a.num * b.den = b.num * a.den
FracLeq(a, b) == a.num * b.den <= b.num * a.den

RECURSIVE SumSeq(_)
SumSeq(s) == IF s = <<>> THEN 0 ELSE s[1] + SumSeq(Tail(s))

\* variant: the history test is dropped, every ad type is forecast
eligible_without_history_test(segments) ==
    [i \in 1..Len(segments) |->
        [AdType |-> i, n_points |-> segments[i].n_points,
         predicted |-> segments[i].predicted]]

\* the rows appended to `results`: ad types with at least MinHistory points
\* (the ad type of a segment is its position in base_df['AdType'].unique())
eligible(segments) ==
    LET named == [i \in 1..Len(segments) |->
                    [AdType |-> i, n_points |-> segments[i].n_points,
                     predicted |-> segments[i].predicted]]
        Enough(seg) == ~(seg.n_points < MinHistory)
    IN SelectSeq(named, Enough)

\* results_df['Predicted_Performance'].sum()
total_performance_score(results) ==
    SumSeq([i \in 1..Len(results) |-> results[i].predicted])

NotRun == [status |-> "not_run", rows |-> <<>>]

\* variant: the fallback assigns total_budget without dividing it
allocate_fallback_undivided(total_budget, segments) ==
    LET results == eligible(segments)
        total == total_performance_score(results)
    IN IF results = <<>> THEN [status |-> "none", rows |-> <<>>]
       ELSE [status |-> "plan",
             rows |-> [i \in 1..Len(results) |->
                         [AdType |-> results[i].AdType,
                          Predicted_Performance |-> results[i].predicted,
                          Recommended_Budget |->
                              IF total > 0
                              THEN Frac(results[i].predicted * total_budget, total)
                              ELSE Frac(total_budget, 1)]]]

\* variant: the fallback is taken only when no score is positive
allocate_fallback_when_all_nonpositive(total_budget, segments) ==
    LET results == eligible(segments)
        total == total_performance_score(results)
    IN IF results = <<>> THEN [status |-> "none", rows |-> <<>>]
       ELSE [status |-> "plan",
             rows |-> [i \in 1..Len(results) |->
                         [AdType |-> results[i].AdType,
                          Predicted_Performance |-> results[i].predicted,
                          Recommended_Budget |->
                              IF \E j \in 1..Len(results) : results[j].predicted > 0
                              THEN Frac(results[i].predicted * total_budget, total)
                              ELSE Frac(total_budget, Len(results))]]]

\* lines 65-93, before the final sort; the forecast of each ad type is the
\* `predicted` drawn for it
allocate_budget_based_on_goal(total_budget, segments) ==
    LET results == eligible(segments)
        total == total_performance_score(results)
    IN IF results = <<>> THEN [status |-> "none", rows |-> <<>>]
       ELSE [status |-> "plan",
             rows |-> [i \in 1..Len(results) |->
                         [AdType |-> results[i].AdType,
                          Predicted_Performance |-> results[i].predicted,
                          Recommended_Budget |->
                              IF total > 0
                              THEN Frac(results[i].predicted * total_budget, total)
                              ELSE Frac(total_budget, Len(results))]]]

\* sort_values(by="Recommended_Budget", ascending=False): every descending
\* order of the rows (the order of ties is not fixed by the default sort)
sort_values_desc(rows) ==
    LET n == Len(rows)
        Perms == {p \in [1..n -> 1..n] : \A i, j \in 1..n : p[i] = p[j] => i = j}
    IN {[i \in 1..n |-> rows[p[i]]] : p \in
          {q \in Perms : \A i \in 1..(n - 1) :
              FracLeq(rows[q[i + 1]].Recommended_Budget, rows[q[i]].Recommended_Budget)}}

\* the operator presses "Generate AI Budget Plan"
GeneratePlan ==
    LET plan == allocate_budget_based_on_goal(alloc_budget, alloc_input)
    IN /\ \E sorted \in sort_values_desc(plan.rows) :
            alloc_result' = [plan EXCEPT !.rows = sorted]
       /\ UNCHANGED <<alloc_input, alloc_budget, live_vars, page_vars, period_vars, insight_vars>>

\* any other interaction re-runs the page without the button: the plan is gone
DiscardPlan ==
    /\ alloc_result # NotRun
    /\ alloc_result' = NotRun
    /\ UNCHANGED <<alloc_input, alloc_budget, live_vars, page_vars, period_vars, insight_vars>>

Segments ==
    [n_points : (MinHistory - 1)..MinHistory, predicted : (-ScoreRange)..ScoreRange]

AllocInputs == UNION {[1..k -> Segments] : k \in 0..MaxSegments}

Budgets == {MinBudget, MinBudget + BudgetStep}

AllocIdle ==
    /\ alloc_input = <<>>
    /\ alloc_budget = MinBudget
    /\ alloc_result = NotRun

\* ------------------------------------------- previous-period window
\* Timestamps are counted in hours; pd.to_datetime of a calendar date is its
\* midnight.
HoursPerDay == 24
to_datetime(day) == day * HoursPerDay
timedelta(days) == days * HoursPerDay
\* Timedelta.days: whole days, rounded down
days_of(delta) == delta \div HoursPerDay

NoDay == -1
NoPeriod == [computed |-> FALSE, prev_start_date |-> 0, prev_end_date |-> 0]

\* variant: prev_start_date is taken period_duration days back, without the + 1
previous_period_short(start_date, end_date) ==
    LET period_duration == days_of(end_date - start_date)
    IN [computed |-> TRUE,
        prev_start_date |-> start_date - timedelta(period_duration),
        prev_end_date |-> start_date - timedelta(1)]

\* lines 188-190
previous_period(start_date, end_date) ==
    LET period_duration == days_of(end_date - start_date)
    IN [computed |-> TRUE,
        prev_start_date |-> start_date - timedelta(period_duration + 1),
        prev_end_date |-> start_date - timedelta(1)]

\* one run of the Diagnostics summary for the value of the date input:
\* `if len(date_range) == 2` guards everything that uses the dates
render_summary(range) ==
    IF range.end = NoDay THEN NoPeriod
    ELSE previous_period(to_datetime(range.start), to_datetime(range.end))

DateRanges == {r \in [start : 0..MaxDay, end : 0..MaxDay] : r.start <= r.end}

\* the operator completes a range in the date input (start <= end)
SelectDateRange ==
    \E r \in DateRanges :
        /\ date_range' = r
        /\ prev_period' = render_summary(r)
        /\ UNCHANGED <<live_vars, page_vars, alloc_vars, insight_vars>>

\* the operator has picked only the first day of a range
SelectStartDay ==
    \E a \in 0..MaxDay :
        /\ date_range' = [start |-> a, end |-> NoDay]
        /\ prev_period' = render_summary(date_range')
        /\ UNCHANGED <<live_vars, page_vars, alloc_vars, insight_vars>>

\* any other interaction re-runs the page with the same date input
RenderSummary ==
    /\ prev_period' = render_summary(date_range)
    /\ UNCHANGED <<date_range, live_vars, page_vars, alloc_vars, insight_vars>>

PeriodIdle ==
    /\ date_range = [start |-> 0, end |-> MaxDay]
    /\ prev_period = NoPeriod

\* ---------------------------------------------------- generate_ai_insight
\* Column means are kept in tenths; NaN is the mean of a column without a
\* number (pd.to_numeric(..., errors='coerce')).
NaN == -1
MetricValues == {NaN, 0, 35, 50, 95, 100, 150}

\* the threshold 0.95 as a fraction
ThresholdNum == 95
ThresholdDen == 100

NaNRatio == [nan |-> TRUE, num |-> 0, den |-> 1]
Ratio(n, d) == [nan |-> FALSE, num |-> n, den |-> d]

\* `a / b if b and not pd.isna(b) else 0`
performance(a, b) ==
    IF b = 0 \/ b = NaN THEN Ratio(0, 1)
    ELSE IF a = NaN THEN NaNRatio
    ELSE Ratio(a, b)

\* `r < 0.95`; a comparison with NaN is False
below_threshold(r) == ~r.nan /\ r.num * ThresholdDen < ThresholdNum * r.den

NoInsight == [symptom |-> "none", cause |-> "none", recommendation |-> "none"]

\* variant: the CPC and CTR tests come before the ROAS test
generate_ai_insight_cost_first(df) ==
    IF df.empty
    THEN [symptom |-> "not_enough_data", cause |-> "", recommendation |-> ""]
    ELSE LET roas_performance == performance(df.Actual_ROAS, df.Target_ROAS)
             cpc_performance == performance(df.Target_CPC, df.Actual_CPC)
             ctr_performance == performance(df.Actual_CTR, df.Target_CTR)
         IN [symptom |-> "roas_vs_target",
             cause |-> IF below_threshold(cpc_performance) THEN "high_cpc"
                       ELSE IF below_threshold(ctr_performance) THEN "low_ctr"
                       ELSE IF below_threshold(roas_performance) THEN "post_click_conversion"
                       ELSE "performance_strong",
             recommendation |-> IF below_threshold(roas_performance)
                                THEN "reallocate_budget"
                                ELSE "scale_top_performers"]

\* variant: the CTR test comes before the CPC test
generate_ai_insight_ctr_first(df) ==
    IF df.empty
    THEN [symptom |-> "not_enough_data", cause |-> "", recommendation |-> ""]
    ELSE LET roas_performance == performance(df.Actual_ROAS, df.Target_ROAS)
             cpc_performance == performance(df.Target_CPC, df.Actual_CPC)
             ctr_performance == performance(df.Actual_CTR, df.Target_CTR)
         IN [symptom |-> "roas_vs_target",
             cause |-> IF below_threshold(roas_performance)
                       THEN IF below_threshold(ctr_performance) THEN "low_ctr"
                            ELSE IF below_threshold(cpc_performance) THEN "high_cpc"
                            ELSE "post_click_conversion"
                       ELSE "performance_strong",
             recommendation |-> IF below_threshold(roas_performance)
                                THEN "reallocate_budget"
                                ELSE "scale_top_performers"]

\* generate_ai_insight(df, start_date, end_date), lines 81-116
generate_ai_insight(df) ==
    IF df.empty
    THEN [symptom |-> "not_enough_data", cause |-> "", recommendation |-> ""]
    ELSE LET roas_performance == performance(df.Actual_ROAS, df.Target_ROAS)
             cpc_performance == performance(df.Target_CPC, df.Actual_CPC)
             ctr_performance == performance(df.Actual_CTR, df.Target_CTR)
         IN [symptom |-> "roas_vs_target",
             cause |-> IF below_threshold(roas_performance)
                       THEN IF below_threshold(cpc_performance) THEN "high_cpc"
                            ELSE IF below_threshold(ctr_performance) THEN "low_ctr"
                            ELSE "post_click_conversion"
                       ELSE "performance_strong",
             recommendation |-> IF below_threshold(roas_performance)
                                THEN "reallocate_budget"
                                ELSE "scale_top_performers"]

\* the filtered tables: no row at all, or rows with these column means
EmptyTable ==
    [empty |-> TRUE, Actual_ROAS |-> NaN, Target_ROAS |-> NaN, Actual_CPC |-> NaN,
     Target_CPC |-> NaN, Actual_CTR |-> NaN, Target_CTR |-> NaN]

Tables ==
    {EmptyTable} \cup
    [empty : {FALSE}, Actual_ROAS : MetricValues, Target_ROAS : MetricValues,
     Actual_CPC : MetricValues, Target_CPC : MetricValues,
     Actual_CTR : MetricValues, Target_CTR : MetricValues]

\* line 255: the page computes the insight of page_df
GenerateInsight ==
    /\ insight' = generate_ai_insight(page_df)
    /\ UNCHANGED <<page_df, live_vars, page_vars, alloc_vars, period_vars>>

\* a filter change leaves no row in page_df
FilterToEmpty ==
    /\ page_df' = EmptyTable
    /\ insight' = generate_ai_insight(page_df')
    /\ UNCHANGED <<live_vars, page_vars, alloc_vars, period_vars>>

InsightIdle ==
    /\ page_df = EmptyTable
    /\ insight = NoInsight

\* ------------------------------------------------------- specifications
Init == LiveInit /\ PagesInit /\ AllocIdle /\ PeriodIdle /\ InsightIdle

Next ==
    \/ RunPending
    \/ Toggle
    \/ \E ts \in Timestamps : MarkAsResolved(ts)
    \/ Refresh
    \/ NewIssue
    \/ DeleteRow
    \/ CacheExpire

\* the Live Alerts session
Spec == Init /\ [][Next]_vars

ViewNext ==
    \/ VisitDiagnostics
    \/ VisitForecaster
    \/ VisitLiveAlerts
    \/ DiagCacheExpire
    \/ FcCacheExpire
    \/ CacheExpire
    \/ AppendCampaignRow
    \/ NewIssue

\* page loads of the three views
ViewSpec == Init /\ [][ViewNext]_vars

AllocInit ==
    /\ LiveInit
    /\ PagesInit
    /\ PeriodIdle
    /\ InsightIdle
    /\ alloc_input \in AllocInputs
    /\ alloc_budget \in Budgets
    /\ alloc_result = NotRun

AllocNext ==
    \/ GeneratePlan
    \/ DiscardPlan

\* the budget allocator on every bounded input
AllocSpec == AllocInit /\ [][AllocNext]_vars

PeriodInit ==
    /\ LiveInit
    /\ PagesInit
    /\ AllocIdle
    /\ InsightIdle
    /\ date_range \in DateRanges
    /\ prev_period = NoPeriod

PeriodNext ==
    \/ SelectDateRange
    \/ SelectStartDay
    \/ RenderSummary

\* the date input of the Diagnostics page
PeriodSpec == PeriodInit /\ [][PeriodNext]_vars

\* ------------------------------------------- the automatic loop, undisturbed
\* The operator opens the page on a sheet of Backlog rows and turns the toggle
\* on; nothing is appended or removed, every remote call succeeds, and the
\* cached read expires or not.

Backlogs ==
    {[i \in 1..Backlog |-> [Timestamp |-> i, Status |-> st[i]]] :
        st \in [1..Backlog -> {"Pending", "Resolved"}]}

\* first page load, or the run queued by st.rerun(), with no fault
QuietRun ==
    /\ pending_run
    /\ RunLiveAlertsWith(IF view \in {"auto_resolved", "manual_resolved"}
                         THEN [kind |-> "rerun", ts |-> last.ts]
                         ELSE [kind |-> "load", ts |-> NoTs],
                         auto_resolve, NoTs, {TRUE}, {"none"})

\* the operator turns the toggle on
EnableAutoResolve ==
    /\ ~pending_run
    /\ view \notin {"none", "crash"}
    /\ ~auto_resolve
    /\ RunLiveAlertsWith([kind |-> "toggle", ts |-> NoTs], TRUE, NoTs,
                         {TRUE}, {"none"})

QuietInit ==
    /\ sheet \in Backlogs
    /\ next_ts = Backlog + 1
    /\ cache = [valid |-> FALSE, df |-> EmptyDataFrame("none")]
    /\ resolved_timestamps = {}
    /\ auto_resolve = FALSE
    /\ live_df = <<>>
    /\ view = "none"
    /\ pending_run = TRUE
    /\ trigger = [kind |-> "none", ts |-> NoTs]
    /\ last = NoCall
    /\ dispatched = "never"
    /\ PagesInit
    /\ AllocIdle
    /\ PeriodIdle
    /\ InsightIdle

QuietNext ==
    \/ QuietRun
    \/ EnableAutoResolve
    \/ CacheExpire

\* Streamlit executes a queued script run: weak fairness on QuietRun
QuietSpec == QuietInit /\ [][QuietNext]_vars /\ WF_vars(QuietRun)

InsightInit ==
    /\ LiveInit
    /\ PagesInit
    /\ AllocIdle
    /\ PeriodIdle
    /\ page_df \in Tables
    /\ insight = NoInsight

InsightNext ==
    \/ GenerateInsight
    \/ FilterToEmpty

\* the insight engine on every bounded table
InsightSpec == InsightInit /\ [][InsightNext]_vars

\* ------------------------------------------------------------------ claims
StatusAt(sh, ts) == IF find(sh, ts) = 0 THEN "Absent" ELSE sh[find(sh, ts)].Status

\* a step that is a script run (or stutters): the environment steps expire the
\* cache, append a row or remove a row
ScriptRunStep ==
    cache'.valid /\ next_ts' = next_ts /\ Len(sheet') = Len(sheet)

\* C1: after resolve returns true (manual or automatic), the list computed by
\* the next script run does not contain the resolved Timestamp, even when the
\* cached read is stale.
C1_NextListExcludesResolved ==
    (trigger.kind = "rerun" /\ view # "crash") => trigger.ts \notin Range(live_df)

\* C2 (as stated): when the POST of an automatic resolve fails, the Status of
\* the located row is still written as Resolved.
C2_NotifyFailureDoesNotBlock ==
    (last.auto /\ last.fault = "post" /\ last.located) => last.wrote

\* C2 (amended): a script run in automatic mode whose POST raises leaves the
\* sheet and the session set untouched and resolve returns false.
C2_NotifyFailureAborts ==
    [][(ScriptRunStep /\ auto_resolve' /\ live_df' # <<>> /\ last'.fault = "post")
        => /\ sheet' = sheet
           /\ ~last'.ret
           /\ ~last'.wrote
           /\ resolved_timestamps' = resolved_timestamps]_vars

C2_Witness ==
    /\ view = "auto_failed"
    /\ last.auto /\ last.fault = "post" /\ last.located
    /\ StatusAt(sheet, last.ts) = "Pending"

\* C3: resolve returns false when the row is not located or the write fails,
\* and returns true only when Status = Resolved was written.
C3_FalseUnlessWritten ==
    last.ts # NoTs =>
        /\ (~last.located \/ last.fault = "update") => ~last.ret
        /\ last.ret => last.wrote

\* C4: a script run in manual mode either makes no resolve call or makes one
\* with auto = False that dispatches no POST.
C4_ManualNeverNotifies ==
    [][~auto_resolve' => (last' = last \/ (~last'.auto /\ ~last'.posted))]_vars

C4_Witness ==
    /\ view = "manual_resolved"
    /\ ~last.auto /\ last.ret /\ last.wrote /\ ~last.posted

\* C5: a row's Status changes only from Pending to Resolved, and only in a
\* step whose resolve call wrote that row.
C5_PendingToResolvedOnly ==
    [][\/ sheet' = sheet
       \/ \A i \in 1..Len(sheet), j \in 1..Len(sheet') :
            (/\ sheet[i].Timestamp = sheet'[j].Timestamp
             /\ sheet[i].Status # sheet'[j].Status)
            => /\ sheet[i].Status = "Pending"
               /\ sheet'[j].Status = "Resolved"
               /\ last'.ts = sheet[i].Timestamp /\ last'.wrote /\ last'.ret]_vars

C5_Witness ==
    /\ last.wrote
    /\ StatusAt(sheet, last.ts) = "Resolved"
    /\ \E ts \in Timestamps : StatusAt(sheet, ts) = "Pending"

\* C6: after the run in which the operator switched the toggle from automatic
\* to manual, the session set of resolved Timestamps is empty, whether the
\* list shown is empty or not.
C6_SetClearedOnSwitchToManual ==
    (trigger.kind = "toggle" /\ ~auto_resolve /\ view # "crash")
        => resolved_timestamps = {}

\* C7: a failed load of the backing store never ends a render in an unhandled
\* exception: each of the three views shows its empty/warning state.
C7_FailedLoadNeverCrashes ==
    /\ diag_cache = "empty" => diag_view \in {"none", "message"}
    /\ fc_cache = "empty" => fc_view \in {"none", "message"}
    /\ (cache.valid /\ cache.df.error = "remote")
          => view \in {"none", "all_clear", "manual"}

RECURSIVE FracSum(_)
FracSum(s) ==
    IF s = <<>> THEN Frac(0, 1)
    ELSE LET r == FracSum(Tail(s))
         IN Frac(s[1].num * r.den + r.num * s[1].den, s[1].den * r.den)

BudgetsOf(res) == [i \in 1..Len(res.rows) |-> res.rows[i].Recommended_Budget]
ScoresOf(res) == [i \in 1..Len(res.rows) |-> res.rows[i].Predicted_Performance]

\* C8: the Recommended_Budget values of a plan sum to total_budget, whatever
\* the signs of the scores.
C8_BudgetsSumToTotal ==
    alloc_result.status = "plan" =>
        FracEq(FracSum(BudgetsOf(alloc_result)), Frac(alloc_budget, 1))

C8_Witness ==
    /\ alloc_result.status = "plan"
    /\ Len(alloc_result.rows) >= 2
    /\ \E i, j \in 1..Len(alloc_result.rows) :
          /\ alloc_result.rows[i].Predicted_Performance < 0
          /\ alloc_result.rows[j].Predicted_Performance > 0
    /\ SumSeq(ScoresOf(alloc_result)) > 0

EqualSplit(res) ==
    \A i \in 1..Len(res.rows) :
        FracEq(res.rows[i].Recommended_Budget, Frac(alloc_budget, Len(res.rows)))

ProportionalSplit(res) ==
    /\ SumSeq(ScoresOf(res)) # 0
    /\ \A i \in 1..Len(res.rows) :
          FracEq(res.rows[i].Recommended_Budget,
                 Frac(res.rows[i].Predicted_Performance * alloc_budget,
                      SumSeq(ScoresOf(res))))

\* C9 (as stated): equal split when all scores are non-positive, proportional
\* split (score / sum of scores) otherwise.
C9_EqualIffAllNonPositive ==
    alloc_result.status = "plan" =>
        IF \A i \in 1..Len(alloc_result.rows) :
              alloc_result.rows[i].Predicted_Performance <= 0
        THEN EqualSplit(alloc_result)
        ELSE ProportionalSplit(alloc_result)

\* C9 (amended): equal split when the sum of the scores is non-positive (so in
\* particular when all are non-positive), proportional split when it is positive.
C9_EqualIffSumNonPositive ==
    alloc_result.status = "plan" =>
        IF SumSeq(ScoresOf(alloc_result)) <= 0
        THEN EqualSplit(alloc_result)
        ELSE ProportionalSplit(alloc_result)

C9_Witness ==
    /\ alloc_result.status = "plan"
    /\ SumSeq(ScoresOf(alloc_result)) <= 0
    /\ \E i \in 1..Len(alloc_result.rows) :
          alloc_result.rows[i].Predicted_Performance > 0
    /\ EqualSplit(alloc_result)

\* C10: every Recommended_Budget of a plan is strictly positive.
C10_BudgetsPositive ==
    alloc_result.status = "plan" =>
        \A i \in 1..Len(alloc_result.rows) :
            alloc_result.rows[i].Recommended_Budget.num
              * alloc_result.rows[i].Recommended_Budget.den > 0

RECURSIVE SumOver(_, _)
SumOver(S, f) ==
    IF S = {} THEN 0
    ELSE LET x == CHOOSE y \in S : TRUE IN f[x].predicted + SumOver(S \ {x}, f)

LongEnough == {i \in 1..Len(alloc_input) : alloc_input[i].n_points >= MinHistory}

\* C11: an ad type with fewer than 5 historical points never appears in the
\* plan and does not influence the budgets of the others (each budget is the
\* split computed over the ad types with at least 5 points only); when no ad
\* type has 5 points there is no plan.
C11_ShortHistoryExcluded ==
    alloc_result.status # "not_run" =>
        IF LongEnough = {}
        THEN alloc_result.status = "none"
        ELSE /\ alloc_result.status = "plan"
             /\ Len(alloc_result.rows) = Cardinality(LongEnough)
             /\ {alloc_result.rows[i].AdType : i \in 1..Len(alloc_result.rows)} = LongEnough
             /\ \A i \in 1..Len(alloc_result.rows) :
                  LET r == alloc_result.rows[i]
                      total == SumOver(LongEnough, alloc_input)
                  IN /\ r.Predicted_Performance = alloc_input[r.AdType].predicted
                     /\ FracEq(r.Recommended_Budget,
                               IF total > 0
                               THEN Frac(alloc_input[r.AdType].predicted * alloc_budget, total)
                               ELSE Frac(alloc_budget, Cardinality(LongEnough)))

C11_Witness ==
    /\ alloc_result.status = "plan"
    /\ Len(alloc_result.rows) >= 2
    /\ \E i \in 1..Len(alloc_input) :
          /\ alloc_input[i].n_points < MinHistory
          /\ alloc_input[i].predicted > 0
    /\ SumOver(LongEnough, alloc_input) > 0

\* C12: for start <= end the previous window ends the day before start and is
\* as long as the current one: prev_end = start - 1 day and
\* prev_end - prev_start = end - start.
C12_PreviousPeriodAdjoins ==
    (prev_period.computed /\ date_range.end # NoDay /\ date_range.start <= date_range.end)
        => /\ prev_period.prev_end_date = to_datetime(date_range.start) - timedelta(1)
           /\ prev_period.prev_end_date - prev_period.prev_start_date
                = to_datetime(date_range.end) - to_datetime(date_range.start)

C12_Witness ==
    /\ prev_period.computed
    /\ date_range.end # NoDay
    /\ date_range.start + 2 <= date_range.end

roas_perf == performance(page_df.Actual_ROAS, page_df.Target_ROAS)
cpc_perf == performance(page_df.Target_CPC, page_df.Actual_CPC)
ctr_perf == performance(page_df.Actual_CTR, page_df.Target_CTR)
at_least_threshold(r) == ~r.nan /\ r.num * ThresholdDen >= ThresholdNum * r.den

\* C13: on a non-empty table with roas_perf >= 0.95 the cause is "performance
\* strong" and the recommendation "scale top performers", whatever cpc_perf
\* and ctr_perf are.
C13_StrongWhenRoasOnTarget ==
    (insight # NoInsight /\ ~page_df.empty /\ at_least_threshold(roas_perf))
        => /\ insight.cause = "performance_strong"
           /\ insight.recommendation = "scale_top_performers"

C13_Witness ==
    /\ insight # NoInsight /\ ~page_df.empty
    /\ at_least_threshold(roas_perf)
    /\ below_threshold(cpc_perf)
    /\ below_threshold(ctr_perf)

\* C14: with roas_perf < 0.95 the cause is the first match of: cpc_perf < 0.95
\* (CPC inefficiency), ctr_perf < 0.95 (low CTR), otherwise post-click
\* conversion; the recommendation is "reallocate budget".  The example
\* ROAS 3.5 / 5.0 with CPC target 10, actual 15 gives the CPC cause.
C14_FirstMatchingCause ==
    /\ (insight # NoInsight /\ ~page_df.empty /\ below_threshold(roas_perf))
         => /\ insight.cause = IF below_threshold(cpc_perf) THEN "high_cpc"
                               ELSE IF below_threshold(ctr_perf) THEN "low_ctr"
                               ELSE "post_click_conversion"
            /\ insight.recommendation = "reallocate_budget"
    /\ (/\ insight # NoInsight /\ ~page_df.empty
        /\ page_df.Actual_ROAS = 35 /\ page_df.Target_ROAS = 50
        /\ page_df.Target_CPC = 100 /\ page_df.Actual_CPC = 150)
         => insight.cause = "high_cpc"

C14_Witness ==
    /\ insight # NoInsight /\ ~page_df.empty
    /\ page_df.Actual_ROAS = 35 /\ page_df.Target_ROAS = 50
    /\ page_df.Target_CPC = 100 /\ page_df.Actual_CPC = 150
    /\ below_threshold(ctr_perf)
    /\ insight.cause = "high_cpc"
\* C15: the list holds only Pending rows, most-recent-first, at most 5 of them,
\* and automatic resolution processes the most recent listed issue first.
C15_ListedMostRecentFirst ==
    /\ Len(live_df) <= TailWindow
    /\ Range(live_df) \subseteq Timestamps
    /\ \A i, j \in 1..Len(live_df) : i < j => live_df[i] > live_df[j]
    /\ view \in {"auto_resolved", "auto_failed"}
         => \A i \in 1..Len(live_df) : last.ts >= live_df[i]
\* the last script run made a resolve_issue call that returned False
FailedRun ==
    \/ view = "auto_failed"
    \/ /\ view = "manual"
       /\ trigger.kind = "click"
       /\ last.ts = trigger.ts
       /\ ~last.ret

OperatorKinds == {"toggle", "click", "refresh"}

\* C16: no failure is retried automatically.  After a resolve call returned
\* False no re-run is queued; until the operator interacts again there is no
\* resolve call and no notification; the failed call leaves the session's
\* resolved set as it was.
C16_NoAutomaticRetry ==
    [][/\ FailedRun' => ~pending_run'
       /\ (FailedRun /\ ScriptRunStep) => trigger'.kind \in OperatorKinds
       /\ (FailedRun /\ ~ScriptRunStep) => (last' = last /\ dispatched' = dispatched)
       /\ (ScriptRunStep /\ FailedRun')
            => resolved_timestamps' = resolved_timestamps]_vars

C16_Witness ==
    /\ view = "auto_failed"
    /\ ~pending_run
    /\ last.auto /\ ~last.ret
    /\ last.fault = "update"
    /\ dispatched = "once"
    /\ resolved_timestamps # {}

\* a script run that called resolve_issue in automatic mode
AutoCallStep == ScriptRunStep /\ view' \in {"auto_resolved", "auto_failed"}

\* C17: at-least-once notification in automatic mode.  A row written Resolved
\* by an automatic call had its notification dispatched earlier in that call;
\* a store failure after the dispatch keeps the dispatch (the count for the
\* issue goes up, the row stays as it was), so a repeated call dispatches again.
C17_AtLeastOnceNotification ==
    [][AutoCallStep =>
        /\ last'.auto
        /\ last'.wrote => (last'.posted /\ last'.fault = "none" /\ dispatched' # "never")
        /\ last'.fault \in {"sheet", "update"} =>
             /\ ~last'.ret
             /\ sheet' = sheet
             /\ dispatched' # "never"
             /\ last.ts = last'.ts =>
                  dispatched' = IF dispatched = "never"
                                THEN "once" ELSE "repeatedly"]_vars

C17_Witness ==
    /\ dispatched = "repeatedly"
    /\ last.auto /\ last.wrote
    /\ view = "auto_resolved"

AllResolved == \A i \in 1..Len(sheet) : sheet[i].Status = "Resolved"

\* C18: in the undisturbed automatic loop every render with a non-empty list
\* resolves exactly one more issue, and the loop leads to the "all clear" view
\* with every row of the sheet Resolved, whether or not the cached read is
\* ever refreshed.
C18_AutoLoopReachesAllClear ==
    /\ [][(cache'.valid /\ view' = "auto_resolved") =>
            /\ last'.ts \notin resolved_timestamps
            /\ resolved_timestamps' = resolved_timestamps \cup {last'.ts}
            /\ Len(PendingRows(sheet')) = Len(PendingRows(sheet)) - 1]_vars
    /\ auto_resolve ~> (view = "all_clear" /\ AllResolved)

C18_Witness ==
    /\ auto_resolve
    /\ view = "all_clear"
    /\ AllResolved
    /\ Cardinality(resolved_timestamps) > TailWindow
    /\ cache.valid
    /\ Len(cache.df.rows) > TailWindow

====
